---- MODULE Spec2Model ----
(***************************************************************************)
(* django_tools/utils/http.py: HttpRequest (fetch a page and decode it to  *)
(* unicode) and HTTPHandler2 / HTTPConnection2 / HTTPConnection3 (capture  *)
(* of the request headers that were sent).                                  *)
(*                                                                         *)
(* Python values are modelled as follows.                                   *)
(*   None             the string NoneValue                                  *)
(*   an optional object (self.response, self.response_header, _conn)        *)
(*                    <<>> for None, <<obj>> otherwise                      *)
(*   a str body       a record [meta, data]: the ASCII markup              *)
(*                    <meta charset=m> for every m of meta, in order,       *)
(*                    followed by the bytes of data                         *)
(*   a unicode text   a record [meta, chars]: the same markup (ASCII       *)
(*                    decodes alike under every codec of the model)         *)
(*                    followed by the code points of chars                  *)
(*   an exception     its class name in the field exc ("" = no exception)   *)
(***************************************************************************)
EXTENDS Integers, Sequences, FiniteSets, TLC

VARIABLES
    page,             \* what the server answers for the url: Content-Type, body
    response,         \* HttpRequest.response: <<>> or <<response object>>
    response_header,  \* HttpRequest.response_header: <<>> or <<HTTPMessage>>
    tried_encodings,  \* HttpRequest.tried_encodings
    opens,            \* number of successful self.opener.open() calls
    calls,            \* number of method calls made on the instance
    last,             \* outcome of the last method call on the instance
    conn,             \* HTTPConnection3._conn of the running http_open
    hpc,              \* position of HTTPHandler2.http_open / do_open
    puts,             \* (header, value) pairs given to putheader, in order
    sends,            \* strings given to send, in order
    hresponse,        \* what the last http_open returned: <<>> or <<response>>
    requests          \* number of http_open calls started on the handler

vars == <<page, response, response_header, tried_encodings, opens, calls, last,
          conn, hpc, puts, sends, hresponse, requests>>

reqVars == <<page, response, response_header, tried_encodings, opens, calls, last>>
handlerVars == <<conn, hpc, puts, sends, hresponse, requests>>

-----------------------------------------------------------------------------
(* Bounds *)

MaxMeta == 2
MaxData == 2
MaxCalls == 2
MaxHeaders == 2
MaxSends == 2
MaxRequests == 2

-----------------------------------------------------------------------------
(* Values *)

NoneValue == "None"

\* 0xFC is u-umlaut in iso-8859-1 and never valid in utf-8;
\* 0xC3 0xBC is u-umlaut in utf-8.
Bytes == {252, 195, 188}

\* "x-unknown" is a name codecs.lookup() does not know.
KnownEncodings == {"ascii", "utf-8", "iso-8859-1"}
EncodingNames == KnownEncodings \cup {"x-unknown"}

ReplacementChar == 65533

SeqUpTo(S, n) == UNION {[1..k -> S] : k \in 0..n}

Bodies == [meta : SeqUpTo(EncodingNames, MaxMeta), data : SeqUpTo(Bytes, MaxData)]

EmptyBody == [meta |-> <<>>, data |-> <<>>]

\* The charset parameter as cgi.parse_header returns it: the name, possibly
\* still wrapped in single quotes (double quotes are removed by parse_header).
CharsetParams ==
    {[quote |-> "", name |-> n] : n \in EncodingNames}
    \cup {[quote |-> "'", name |-> "utf-8"]}

\* The Content-Type header of a response: absent, or a media type with
\* or without a charset parameter.
ContentTypes ==
    {[present |-> FALSE, charset |-> <<>>]}
    \cup {[present |-> TRUE, charset |-> <<>>]}
    \cup {[present |-> TRUE, charset |-> <<p>>] : p \in CharsetParams}

Pages == [content_type : ContentTypes, body : Bodies]

-----------------------------------------------------------------------------
(* unicode(content, encoding, errors) *)

Ok(text, encoding, errors) ==
    [exc |-> "", text |-> text, encoding |-> encoding, errors |-> errors]

Raise(exc) ==
    [exc |-> exc, text |-> [meta |-> <<>>, chars |-> <<>>],
     encoding |-> NoneValue, errors |-> ""]

IsContinuation(b) == b >= 128 /\ b <= 191
IsLead2(b) == b >= 194 /\ b <= 223

\* Code points of data under codec ascii; <<-1>> marks a UnicodeDecodeError.
RECURSIVE DecodeAscii(_, _)
DecodeAscii(data, errors) ==
    IF data = <<>> THEN <<>>
    ELSE IF Head(data) < 128
         THEN LET rest == DecodeAscii(Tail(data), errors)
              IN IF rest = <<-1>> THEN rest ELSE <<Head(data)>> \o rest
         ELSE IF errors = "strict" THEN <<-1>>
              ELSE <<ReplacementChar>> \o DecodeAscii(Tail(data), errors)

\* Code points of data under codec utf-8 (one- and two-byte sequences; the
\* byte alphabet holds no lead byte of a longer sequence).
RECURSIVE DecodeUtf8(_, _)
DecodeUtf8(data, errors) ==
    IF data = <<>> THEN <<>>
    ELSE LET b == Head(data)
             two == IsLead2(b) /\ Len(data) >= 2 /\ IsContinuation(data[2])
             used == IF two THEN 2 ELSE 1
             rest == DecodeUtf8(SubSeq(data, used + 1, Len(data)), errors)
         IN IF b < 128 \/ two
            THEN IF rest = <<-1>> THEN rest
                 ELSE IF two THEN <<(b - 192) * 64 + (data[2] - 128)>> \o rest
                      ELSE <<b>> \o rest
            ELSE IF errors = "strict" THEN <<-1>>
                 ELSE <<ReplacementChar>> \o rest

\* iso-8859-1 maps every byte to the code point of the same number.
DecodeLatin1(data, errors) == data

Decode(data, encoding, errors) ==
    CASE encoding = "ascii" -> DecodeAscii(data, errors)
      [] encoding = "utf-8" -> DecodeUtf8(data, errors)
      [] encoding = "iso-8859-1" -> DecodeLatin1(data, errors)

\* The builtin unicode(content, encoding[, errors]): TypeError when encoding
\* is not a string, LookupError for an unknown codec, UnicodeDecodeError
\* (a UnicodeError) when strict decoding meets an invalid byte.
unicode(content, encoding, errors) ==
    IF encoding = NoneValue THEN Raise("TypeError")
    ELSE IF encoding \notin KnownEncodings THEN Raise("LookupError")
    ELSE LET chars == Decode(content.data, encoding, errors)
         IN IF chars = <<-1>> THEN Raise("UnicodeError")
            ELSE Ok([meta |-> content.meta, chars |-> chars], encoding, errors)

-----------------------------------------------------------------------------
(* HTTPConnection2: the connection that records what it is asked to send *)

\* A request header line is the pair <<header, value>>; a string handed to
\* send is the sequence of its lines, "" being <<>>.
HeaderPairs == {<<"Host", "a">>, <<"Host", "b">>, <<"Connection", "close">>}

RequestLine == <<"GET", "/">>
BodyLine == <<"body", "x=1">>

\* What httplib buffers up to endheaders(): the request line and one line
\* for every putheader.
HeaderBlock(headers) == <<RequestLine>> \o headers

\* HTTPConnection2.__init__
HTTPConnection2_init == [request_headers |-> <<>>, request_header |-> <<>>]

\* A putheader that keeps one pair per header name, as a dict would.
RECURSIVE ReplaceByName(_, _, _)
ReplaceByName(headers, header, value) ==
    IF headers = <<>> THEN <<>>
    ELSE IF Head(headers)[1] = header
         THEN <<<<header, value>>>> \o Tail(headers)
         ELSE <<Head(headers)>> \o ReplaceByName(Tail(headers), header, value)

putheader_overwriting(c, header, value) ==
    IF \E i \in 1..Len(c.request_headers) : c.request_headers[i][1] = header
    THEN [c EXCEPT !.request_headers = ReplaceByName(@, header, value)]
    ELSE [c EXCEPT !.request_headers = Append(@, <<header, value>>)]

\* HTTPConnection2.putheader
putheader(c, header, value) ==
    [c EXCEPT !.request_headers = Append(@, <<header, value>>)]

\* HTTPConnection2.send
send(c, s) == [c EXCEPT !.request_header = s]

\* A __call__ that keeps the lists of the connection made before.
HTTPConnection3_call_stale(old) ==
    IF old = <<>> THEN <<HTTPConnection2_init>> ELSE old

\* HTTPConnection3.__call__: a new HTTPConnection2 in self._conn.
HTTPConnection3_call(old) == <<HTTPConnection2_init>>

\* HTTPConnection3.__getattribute__ sends every read other than _conn to
\* self._conn, so the handler reads the connection's current attributes.
HTTPConnection3_getattribute(c, name) ==
    IF name = "request_headers" THEN c[1].request_headers
    ELSE c[1].request_header

RECURSIVE PutAll(_, _)
PutAll(c, headers) ==
    IF headers = <<>> THEN c
    ELSE PutAll(putheader(c, Head(headers)[1], Head(headers)[2]), Tail(headers))

RECURSIVE SendAll(_, _)
SendAll(c, chunks) ==
    IF chunks = <<>> THEN c ELSE SendAll(send(c, Head(chunks)), Tail(chunks))

\* HTTPHandler2.http_open for a request whose headers and sent strings are
\* given: the two attributes it copies from the connection to the response.
http_open(headers, chunks) ==
    LET c0 == HTTPConnection3_call(<<>>)
        c1 == PutAll(c0[1], headers)
        c2 == SendAll(c1, chunks)
    IN [request_headers |-> HTTPConnection3_getattribute(<<c2>>, "request_headers"),
        request_header |-> HTTPConnection3_getattribute(<<c2>>, "request_header")]

-----------------------------------------------------------------------------
(* HttpRequest *)

\* The headers of the request HttpRequest sends (the class doctest): a GET
\* without a body, so httplib hands one string to send.
RequestHeaders ==
    << <<"Accept-Encoding", "identity">>, <<"Host", "www.heise.de">>,
       <<"Connection", "close">>, <<"User-Agent", "Python test">> >>

EmptyText == [meta |-> <<>>, chars |-> <<>>]

\* The instance attributes a method reads and assigns.
Self == [response |-> response, response_header |-> response_header,
         tried_encodings |-> tried_encodings]

\* The outcome of a method call: the instance afterwards, the exception that
\* left the method (exc), the value returned (ret_id: the id of a response
\* object; content: a str; text, encoding, errors: a unicode and the decode
\* that made it; value: a charset name or NoneValue), whether the network
\* request was issued (opened), whether response.read() was called for the
\* first time on the response (fresh), the names given to a strict
\* unicode(content, name) in call order (attempts), and tried_encodings as
\* the call found it (before).
Outcome(self, exc) ==
    [self |-> self, exc |-> exc, ret_id |-> 0, content |-> EmptyBody,
     text |-> EmptyText, encoding |-> NoneValue, errors |-> "",
     value |-> NoneValue, opened |-> FALSE, fresh |-> FALSE,
     attempts |-> <<>>, before |-> self.tried_encodings]

\* The response object urllib2 returns, with the two attributes http_open
\* adds; fp is what response.read() has not returned yet, unread whether
\* read() has not been called yet.
NewResponse(id, served) ==
    LET sent == http_open(RequestHeaders, <<HeaderBlock(RequestHeaders)>>)
    IN [id |-> id, info |-> served.content_type, fp |-> served.body,
        unread |-> TRUE,
        request_headers |-> sent.request_headers,
        request_header |-> sent.request_header]

\* A get_response that keeps an empty header object when the open fails.
get_response_failure_kept(self, net, id) ==
    IF self.response = <<>>
    THEN IF ~net.ok
         THEN Outcome([self EXCEPT !.response_header =
                          <<[present |-> FALSE, charset |-> <<>>]>>], "URLError")
         ELSE LET r == NewResponse(id, net.page)
              IN [Outcome([self EXCEPT !.response = <<r>>,
                                       !.response_header = <<r.info>>], "")
                     EXCEPT !.ret_id = id, !.opened = TRUE]
    ELSE [Outcome(self, "") EXCEPT !.ret_id = self.response[1].id]

\* A get_response that opens the request on every call.
get_response_uncached(self, net, id) ==
    IF ~net.ok THEN Outcome(self, "URLError")
    ELSE LET r == NewResponse(id, net.page)
         IN [Outcome([self EXCEPT !.response = <<r>>,
                                  !.response_header = <<r.info>>], "")
                EXCEPT !.ret_id = id, !.opened = TRUE]

\* HttpRequest.get_response.  net is what self.opener.open(self.request) does
\* when called: raise URLError (~net.ok) or return the response to the request
\* with the page the server answers; id names the response object it makes.
get_response(self, net, id) ==
    IF self.response = <<>>
    THEN IF ~net.ok THEN Outcome(self, "URLError")
         ELSE LET r == NewResponse(id, net.page)
              IN [Outcome([self EXCEPT !.response = <<r>>,
                                       !.response_header = <<r.info>>], "")
                     EXCEPT !.ret_id = id, !.opened = TRUE]
    ELSE [Outcome(self, "") EXCEPT !.ret_id = self.response[1].id]

\* A get_content whose response can be read again from the start.
get_content_rewinding(self, net, id) ==
    LET r == get_response(self, net, id)
    IN IF r.exc # "" THEN r
       ELSE [r EXCEPT !.content = r.self.response[1].fp,
                      !.fresh = r.self.response[1].unread,
                      !.self.response[1].unread = FALSE]

\* HttpRequest.get_content: response.read() returns what is left of the body
\* and leaves nothing.
get_content(self, net, id) ==
    LET r == get_response(self, net, id)
    IN IF r.exc # "" THEN r
       ELSE [r EXCEPT !.content = r.self.response[1].fp,
                      !.fresh = r.self.response[1].unread,
                      !.self.response[1].fp = EmptyBody,
                      !.self.response[1].unread = FALSE]

\* A get_content_type that answers an empty params dict while there is no
\* response header.
get_content_type_lenient(self) ==
    IF self.response_header = <<>> THEN [exc |-> "", params |-> <<>>]
    ELSE IF ~self.response_header[1].present
         THEN [exc |-> "TypeError", params |-> <<>>]
         ELSE [exc |-> "", params |-> self.response_header[1].charset]

\* HttpRequest.get_content_type: None has no get(); cgi.parse_header(None)
\* raises TypeError.  The value returned is the params dict, here the
\* optional charset parameter.
get_content_type(self) ==
    IF self.response_header = <<>> THEN [exc |-> "AttributeError", params |-> <<>>]
    ELSE IF ~self.response_header[1].present
         THEN [exc |-> "TypeError", params |-> <<>>]
         ELSE [exc |-> "", params |-> self.response_header[1].charset]

\* str.strip("'\""): the value without the quote characters around it.
strip(param) == param.name

\* A get_encoding_from_content_type that answers "ascii" for an absent
\* charset parameter.
get_encoding_from_content_type_default(self) ==
    LET ct == get_content_type(self)
    IN IF ct.exc # "" THEN [exc |-> ct.exc, value |-> NoneValue]
       ELSE IF ct.params # <<>> THEN [exc |-> "", value |-> strip(ct.params[1])]
            ELSE [exc |-> "", value |-> "ascii"]

\* HttpRequest.get_encoding_from_content_type
get_encoding_from_content_type(self) ==
    LET ct == get_content_type(self)
    IN IF ct.exc # "" THEN [exc |-> ct.exc, value |-> NoneValue]
       ELSE IF ct.params # <<>> THEN [exc |-> "", value |-> strip(ct.params[1])]
            ELSE [exc |-> "", value |-> NoneValue]

\* HttpRequest.get_encodings_from_content: charset_re.findall(content), the
\* charset names of the <meta ...> markup in order of appearance.
get_encodings_from_content(content) == content.meta

Contains(seq, x) == \E i \in 1..Len(seq) : seq[i] = x

\* State of get_unicode between its steps: the instance's tried_encodings,
\* the local variable encoding, the strict attempts made, and, once the
\* method has returned or raised, done with the result of unicode().
Running(tried, encoding, attempts) ==
    [done |-> FALSE, tried |-> tried, encoding |-> encoding,
     attempts |-> attempts, result |-> Raise("")]

Finished(tried, encoding, attempts, result) ==
    [done |-> TRUE, tried |-> tried, encoding |-> encoding,
     attempts |-> attempts, result |-> result]

\* One strict attempt: return on success, record the name on UnicodeError,
\* let any other exception leave the method.
TryStrict(content, encoding, tried, attempts) ==
    LET u == unicode(content, encoding, "strict")
        made == Append(attempts, encoding)
    IN IF u.exc = "UnicodeError"
       THEN Running(Append(tried, encoding), encoding, made)
       ELSE Finished(tried, encoding, made, u)

\* A step 1 that never tries the declared charset.
TryContentType_skipped(content, encoding, tried) ==
    Running(tried, encoding, <<>>)

\* A step 1 that does not record the declared charset when it fails.
TryContentType_unrecorded(content, encoding, tried) ==
    LET t == TryStrict(content, encoding, tried, <<>>)
    IN IF encoding = NoneValue THEN Running(tried, encoding, <<>>)
       ELSE IF t.done THEN t ELSE [t EXCEPT !.tried = tried]

\* A step 1 that starts the call with an empty tried_encodings.
TryContentType_resetting(content, encoding, tried) ==
    IF encoding # NoneValue
    THEN TryStrict(content, encoding, <<>>, <<>>)
    ELSE Running(<<>>, encoding, <<>>)

\* get_unicode, "Try charset from content-type"
TryContentType(content, encoding, tried) ==
    IF encoding # NoneValue
    THEN TryStrict(content, encoding, tried, <<>>)
    ELSE Running(tried, encoding, <<>>)

\* A loop that tries a candidate whether or not it was tried before.
RECURSIVE TryMeta_unchecked(_, _, _)
TryMeta_unchecked(content, encodings, st) ==
    IF st.done \/ encodings = <<>> THEN st
    ELSE TryMeta_unchecked(content, Tail(encodings),
             TryStrict(content, Head(encodings), st.tried, st.attempts))

\* get_unicode, "Try every encodings from <meta ... charset=XXX>"
RECURSIVE TryMeta(_, _, _)
TryMeta(content, encodings, st) ==
    IF st.done \/ encodings = <<>> THEN st
    ELSE LET encoding == Head(encodings)
         IN IF Contains(st.tried, encoding)
            THEN TryMeta(content, Tail(encodings),
                         [st EXCEPT !.encoding = encoding])
            ELSE TryMeta(content, Tail(encodings),
                         TryStrict(content, encoding, st.tried, st.attempts))

\* A fall back that decodes with the name of the last strict attempt made.
FallBack_last_attempt(content, st) ==
    IF st.done THEN st
    ELSE LET encoding == IF st.attempts # <<>>
                         THEN st.attempts[Len(st.attempts)]
                         ELSE st.encoding
         IN Finished(st.tried, encoding, st.attempts,
                     unicode(content, encoding, "replace"))

\* get_unicode, "Fall back"
FallBack(content, st) ==
    IF st.done THEN st
    ELSE Finished(st.tried, st.encoding, st.attempts,
                  unicode(content, st.encoding, "replace"))

\* HttpRequest.get_unicode
get_unicode(self, net, id) ==
    LET c == get_content(self, net, id)
        e == get_encoding_from_content_type(c.self)
        st == FallBack(c.content,
                  TryMeta(c.content, get_encodings_from_content(c.content),
                      TryContentType(c.content, e.value, c.self.tried_encodings)))
    IN IF c.exc # "" THEN c
       ELSE IF e.exc # "" THEN [c EXCEPT !.exc = e.exc]
       ELSE [c EXCEPT !.self.tried_encodings = st.tried,
                      !.exc = st.result.exc,
                      !.text = st.result.text,
                      !.encoding = st.result.encoding,
                      !.errors = st.result.errors,
                      !.attempts = st.attempts]

-----------------------------------------------------------------------------
(* The calls a user makes on one HttpRequest instance *)

Init ==
    /\ page \in Pages
    /\ response = <<>>
    /\ response_header = <<>>
    /\ tried_encodings = <<>>
    /\ opens = 0
    /\ calls = 0
    /\ last = [Outcome([response |-> <<>>, response_header |-> <<>>,
                        tried_encodings |-> <<>>], "") EXCEPT !.self = "__init__"]
    /\ conn = <<>>
    /\ hpc = "idle"
    /\ puts = <<>>
    /\ sends = <<>>
    /\ hresponse = <<>>
    /\ requests = 0

\* The instance and the record of the call after a method call with outcome o;
\* the field self of last holds the name of the method.
Call(op, o) ==
    /\ calls' = calls + 1
    /\ response' = o.self.response
    /\ response_header' = o.self.response_header
    /\ tried_encodings' = o.self.tried_encodings
    /\ opens' = IF o.opened THEN opens + 1 ELSE opens
    /\ last' = [o EXCEPT !.self = op]
    /\ UNCHANGED <<page, handlerVars>>

GetResponse ==
    /\ calls < MaxCalls
    /\ \E ok \in BOOLEAN :
        Call("get_response", get_response(Self, [ok |-> ok, page |-> page], opens + 1))

GetContent ==
    /\ calls < MaxCalls
    /\ \E ok \in BOOLEAN :
        Call("get_content", get_content(Self, [ok |-> ok, page |-> page], opens + 1))

GetContentType ==
    /\ calls < MaxCalls
    /\ Call("get_content_type", Outcome(Self, get_content_type(Self).exc))

GetEncodingFromContentType ==
    /\ calls < MaxCalls
    /\ LET e == get_encoding_from_content_type(Self)
       IN Call("get_encoding_from_content_type",
               [Outcome(Self, e.exc) EXCEPT !.value = e.value])

GetUnicode ==
    /\ calls < MaxCalls
    /\ \E ok \in BOOLEAN :
        Call("get_unicode", get_unicode(Self, [ok |-> ok, page |-> page], opens + 1))

Next ==
    \/ GetResponse
    \/ GetContent
    \/ GetContentType
    \/ GetEncodingFromContentType
    \/ GetUnicode

Spec == Init /\ [][Next]_vars

-----------------------------------------------------------------------------
(* One HTTPHandler2 serving requests: http_open, and inside it the calls     *)
(* urllib2's do_open and httplib make on the connection                      *)

InitHandler ==
    /\ page = [content_type |-> [present |-> FALSE, charset |-> <<>>],
               body |-> EmptyBody]
    /\ response = <<>>
    /\ response_header = <<>>
    /\ tried_encodings = <<>>
    /\ opens = 0
    /\ calls = 0
    /\ last = [Outcome([response |-> <<>>, response_header |-> <<>>,
                        tried_encodings |-> <<>>], "") EXCEPT !.self = "__init__"]
    /\ conn = <<>>
    /\ hpc = "idle"
    /\ puts = <<>>
    /\ sends = <<>>
    /\ hresponse = <<>>
    /\ requests = 0

\* http_open is entered: conn_instance = HTTPConnection3(), and do_open
\* calls it to make the connection.
HttpOpenBegin ==
    /\ hpc = "idle"
    /\ requests < MaxRequests
    /\ requests' = requests + 1
    /\ conn' = HTTPConnection3_call(conn)
    /\ puts' = <<>>
    /\ sends' = <<>>
    /\ hpc' = "headers"
    /\ UNCHANGED <<hresponse, reqVars>>

\* httplib writes one header of the request.
PutHeader ==
    /\ hpc = "headers"
    /\ Len(puts) < MaxHeaders
    /\ \E hv \in HeaderPairs :
          /\ conn' = <<putheader(conn[1], hv[1], hv[2])>>
          /\ puts' = Append(puts, hv)
    /\ UNCHANGED <<hpc, sends, hresponse, requests, reqVars>>

\* endheaders(): httplib hands the buffered request line and headers to
\* send.
EndHeaders ==
    /\ hpc = "headers"
    /\ conn' = <<send(conn[1], HeaderBlock(puts))>>
    /\ sends' = Append(sends, HeaderBlock(puts))
    /\ hpc' = "sent"
    /\ UNCHANGED <<puts, hresponse, requests, reqVars>>

\* httplib hands a piece of the request body to send.
SendBody ==
    /\ hpc = "sent"
    /\ Len(sends) < MaxSends
    /\ conn' = <<send(conn[1], <<BodyLine>>)>>
    /\ sends' = Append(sends, <<BodyLine>>)
    /\ UNCHANGED <<hpc, puts, hresponse, requests, reqVars>>

\* do_open returns and http_open copies the two attributes to the response.
HttpOpenReturn ==
    /\ hpc = "sent"
    /\ hresponse' =
          <<[request_headers |-> HTTPConnection3_getattribute(conn, "request_headers"),
             request_header |-> HTTPConnection3_getattribute(conn, "request_header")]>>
    /\ hpc' = "idle"
    /\ UNCHANGED <<conn, puts, sends, requests, reqVars>>

\* do_open raises (URLError): http_open returns nothing.
DoOpenRaise ==
    /\ hpc \in {"headers", "sent"}
    /\ hresponse' = <<>>
    /\ hpc' = "idle"
    /\ UNCHANGED <<conn, puts, sends, requests, reqVars>>

NextHandler ==
    \/ HttpOpenBegin
    \/ PutHeader
    \/ EndHeaders
    \/ SendBody
    \/ HttpOpenReturn
    \/ DoOpenRaise

SpecHandler == InitHandler /\ [][NextHandler]_vars

-----------------------------------------------------------------------------
(* Properties *)

\* The charset the served Content-Type declares, NoneValue without one.
Declared ==
    IF page.content_type.present /\ page.content_type.charset # <<>>
    THEN page.content_type.charset[1].name
    ELSE NoneValue

NoCharset == page.content_type.present /\ page.content_type.charset = <<>>

\* The served body decoded strictly with a codec name.
StrictDecode(encoding) == unicode(page.body, encoding, "strict")

\* The last call was a get_unicode() that fetched (or found fetched) the
\* response and read its body, unread until then.
DecodedBody == last.self = "get_unicode" /\ last.fresh

\* C1: when the declared charset strictly decodes the body, the get_unicode()
\* that reads the body returns exactly the strict decode of the whole body
\* with the declared charset, whatever meta-tag candidates the body holds,
\* and tried_encodings is empty afterwards.
C1_DeclaredCharsetDecodes ==
    (DecodedBody /\ Declared # NoneValue /\ StrictDecode(Declared).exc = "")
        => /\ last.exc = ""
           /\ last.text = StrictDecode(Declared).text
           /\ last.encoding = Declared
           /\ last.errors = "strict"
           /\ last.attempts = <<Declared>>
           /\ tried_encodings = <<>>

C1_Witness ==
    /\ DecodedBody
    /\ Declared = "utf-8"
    /\ page.body = [meta |-> <<"iso-8859-1">>, data |-> <<195, 188>>]
    /\ last.text = [meta |-> <<"iso-8859-1">>, chars |-> <<252>>]
    /\ tried_encodings = <<>>

\* The declared charset is a known codec that raises UnicodeError on the body.
DeclaredFails ==
    Declared # NoneValue /\ StrictDecode(Declared).exc = "UnicodeError"

\* C2 as claimed: when the declared charset fails on the body and some
\* meta-tag candidate, at any position, strictly decodes it, get_unicode()
\* returns the body decoded with a candidate that decodes it and
\* tried_encodings is exactly <<declared>>.
C2_AnyPosition ==
    (/\ DecodedBody
     /\ DeclaredFails
     /\ \E i \in 1..Len(page.body.meta) : StrictDecode(page.body.meta[i]).exc = "")
        => /\ last.exc = ""
           /\ \E i \in 1..Len(page.body.meta) :
                 /\ StrictDecode(page.body.meta[i]).exc = ""
                 /\ last.text = StrictDecode(page.body.meta[i]).text
           /\ tried_encodings = <<Declared>>

\* C2, amended: when the declared charset fails on the body and the first
\* meta-tag candidate strictly decodes it, get_unicode() returns the body
\* decoded with that candidate and tried_encodings is exactly <<declared>>.
C2_FirstCandidate ==
    (/\ DecodedBody
     /\ DeclaredFails
     /\ page.body.meta # <<>>
     /\ StrictDecode(page.body.meta[1]).exc = "")
        => /\ last.exc = ""
           /\ last.text = StrictDecode(page.body.meta[1]).text
           /\ last.encoding = page.body.meta[1]
           /\ last.errors = "strict"
           /\ tried_encodings = <<Declared>>

C2_Witness ==
    /\ DecodedBody
    /\ Declared = "utf-8"
    /\ page.body = [meta |-> <<"iso-8859-1">>, data |-> <<252>>]
    /\ last.text = [meta |-> <<"iso-8859-1">>, chars |-> <<252>>]
    /\ tried_encodings = <<"utf-8">>

\* C3: a body served with a Content-Type without a charset parameter and
\* holding no meta-tag charset: get_unicode() returns the text of a
\* replacement-policy decode and does not raise.
C3_FallbackWithoutCharset ==
    (DecodedBody /\ NoCharset /\ page.body.meta = <<>>)
        => last.exc = "" /\ last.errors = "replace"

\* C4: once the fetch has succeeded, get_unicode() always returns text: no
\* error of a decode attempt reaches the caller, whatever charset the
\* Content-Type names and whatever the meta-tag candidates are.
C4_DecodingIsTotal ==
    (last.self = "get_unicode" /\ response # <<>> /\ Declared # NoneValue)
        => last.exc = ""

\* C5: tried_encodings never contains the encoding with which a get_unicode()
\* call strictly decoded and returned.
C5_SucceededNotTried ==
    (last.self = "get_unicode" /\ last.exc = "" /\ last.errors = "strict")
        => ~Contains(tried_encodings, last.encoding)

\* C6: tried_encodings never holds an encoding name twice.
C6_NoDuplicates ==
    \A i, j \in 1..Len(tried_encodings) :
        i # j => tried_encodings[i] # tried_encodings[j]

C6_Witness ==
    /\ DecodedBody
    /\ Declared = "ascii"
    /\ page.body = [meta |-> <<"ascii", "ascii">>, data |-> <<252>>]
    /\ tried_encodings = <<"ascii">>

\* C7: at most one opener.open succeeds per instance; once it has, every
\* get_response() returns that one response object, and no call issues a
\* network request again (none opens, none ends in the transport's error).
C7_ResponseCached ==
    /\ opens <= 1
    /\ response # <<>> =>
          /\ opens = 1
          /\ response[1].id = 1
          /\ last.exc # "URLError"
    /\ (last.self = "get_response" /\ last.exc = "") =>
          response # <<>> /\ last.ret_id = response[1].id

C7_Witness ==
    /\ calls = 2
    /\ opens = 1
    /\ last.self = "get_response"
    /\ last.exc = ""
    /\ ~last.opened
    /\ last.ret_id = 1

\* The last http_open on the handler returned a response.
Returned == hpc = "idle" /\ hresponse # <<>>

\* C8: the request_headers of the response http_open returns are exactly the
\* (name, value) pairs given to putheader during that request, in call order;
\* a pair with a name already recorded is appended, the earlier pair stays.
C8_HeadersInCallOrder ==
    Returned => hresponse[1].request_headers = puts

C8_Witness ==
    /\ Returned
    /\ Len(puts) = 2
    /\ puts[1][1] = puts[2][1]
    /\ puts[1][2] # puts[2][2]
    /\ hresponse[1].request_headers = puts

\* C9: the request_header of the response http_open returns is the request
\* line and headers handed to send, what is written before the body, however
\* many times send was called during the request.
C9_HeaderBlockKept ==
    Returned => hresponse[1].request_header = HeaderBlock(puts)

\* C10: without a charset parameter in the Content-Type, get_unicode() makes
\* no attempt before the meta-tag candidates (its first strict attempt, if
\* any, is the first candidate, and only candidates are recorded as tried);
\* when the first candidate decodes the body, that decode is returned and
\* tried_encodings is empty.
C10_NoCharsetSkipsStepOne ==
    (DecodedBody /\ NoCharset)
        => /\ page.body.meta = <<>> => last.attempts = <<>>
           /\ page.body.meta # <<>> => /\ last.attempts # <<>>
                                       /\ last.attempts[1] = page.body.meta[1]
           /\ \A i \in 1..Len(tried_encodings) :
                 Contains(page.body.meta, tried_encodings[i])
           /\ (page.body.meta # <<>> /\ StrictDecode(page.body.meta[1]).exc = "")
                 => /\ last.exc = ""
                    /\ last.text = StrictDecode(page.body.meta[1]).text
                    /\ last.errors = "strict"
                    /\ tried_encodings = <<>>

C10_Witness ==
    /\ DecodedBody
    /\ NoCharset
    /\ page.body = [meta |-> <<"iso-8859-1">>, data |-> <<252>>]
    /\ last.text = [meta |-> <<"iso-8859-1">>, chars |-> <<252>>]
    /\ last.attempts = <<"iso-8859-1">>
    /\ tried_encodings = <<>>

\* The last call was a get_unicode() that got as far as decoding.
Decoding ==
    /\ last.self = "get_unicode"
    /\ response # <<>>
    /\ page.content_type.present

NoRepeat(seq) == \A i, j \in 1..Len(seq) : i # j => seq[i] # seq[j]

Front(seq) == SubSeq(seq, 1, Len(seq) - 1)

\* The strict attempts of the last call that failed: all of them, but for the
\* last one when the call returned its strict decode.
FailedAttempts ==
    IF last.exc = "" /\ last.errors = "strict"
    THEN Front(last.attempts)
    ELSE last.attempts

\* C11: within one get_unicode() call no name is strictly attempted twice (a
\* candidate already in tried_encodings is skipped), and every strict attempt
\* that fails appends its name to tried_encodings once, in attempt order.
C11_FailedAttemptsRecorded ==
    Decoding
        => /\ NoRepeat(last.attempts)
           /\ tried_encodings = last.before \o FailedAttempts


\* The last get_unicode() made strict attempts and each met an invalid byte.
AllAttemptsFailed ==
    /\ Decoding
    /\ last.attempts # <<>>
    /\ \A i \in 1..Len(last.attempts) :
          unicode(last.content, last.attempts[i], "strict").exc = "UnicodeError"

\* C12 as claimed: when every strict attempt of a call fails, the fallback
\* decodes with the encoding of the last attempt made in the call, the last
\* entry appended to tried_encodings.
C12_FallbackUsesLastAttempt ==
    AllAttemptsFailed
        => /\ last.exc = ""
           /\ last.errors = "replace"
           /\ last.encoding = last.attempts[Len(last.attempts)]
           /\ last.encoding = tried_encodings[Len(tried_encodings)]

\* The value of the variable encoding after the loop over the candidates.
LoopVariable ==
    IF last.content.meta # <<>>
    THEN last.content.meta[Len(last.content.meta)]
    ELSE Declared

\* C12, amended: when every strict attempt of a call fails, the fallback
\* decodes with the last meta-tag candidate of the body, whether it was
\* attempted or skipped as already tried, or with the declared charset when
\* the body holds no candidate.
C12_FallbackUsesLoopVariable ==
    AllAttemptsFailed
        => /\ last.exc = ""
           /\ last.errors = "replace"
           /\ last.encoding = LoopVariable
           /\ last.text = unicode(last.content, LoopVariable, "replace").text

C12_Witness ==
    /\ AllAttemptsFailed
    /\ Declared = "utf-8"
    /\ page.body = [meta |-> <<"ascii", "utf-8">>, data |-> <<252>>]
    /\ last.attempts = <<"utf-8", "ascii">>
    /\ tried_encodings = <<"utf-8", "ascii">>
    /\ last.encoding = "utf-8"
    /\ last.text = [meta |-> <<"ascii", "utf-8">>, chars |-> <<ReplacementChar>>]


\* C13: a response without a Content-Type header: get_encoding_from_content_type()
\* answers None without raising, and get_unicode() goes on to the meta-tag
\* candidates (it returns the decode of the first candidate when that one
\* decodes the body).
C13_MissingHeaderIsNoCharset ==
    (response # <<>> /\ ~page.content_type.present)
        => /\ last.self = "get_encoding_from_content_type"
                 => last.exc = "" /\ last.value = NoneValue
           /\ (/\ DecodedBody
               /\ page.body.meta # <<>>
               /\ StrictDecode(page.body.meta[1]).exc = "")
                 => /\ last.exc = ""
                    /\ last.text = StrictDecode(page.body.meta[1]).text


\* The last call read a response whose body an earlier call had read.
ReadAgain ==
    /\ last.self \in {"get_content", "get_unicode"}
    /\ response # <<>>
    /\ ~last.fresh

\* C14: once a get_content() or get_unicode() has read the body, a later
\* get_content() gets the empty rest, not the body, and issues no network
\* request; a later get_unicode() decodes that empty rest.
C14_BodyReadOnce ==
    ReadAgain
        => /\ last.content = EmptyBody
           /\ ~last.opened
           /\ opens = 1
           /\ last.exc = "" => last.text = EmptyText

C14_Witness ==
    /\ ReadAgain
    /\ last.self = "get_unicode"
    /\ page.body.data # <<>>
    /\ last.exc = ""
    /\ last.content = EmptyBody
    /\ last.text = EmptyText


InSeq(x, seq) == \E i \in 1..Len(seq) : seq[i] = x

\* C15: every http_open works on a new connection that starts with
\* request_headers == [] and request_header == "": while a request runs the
\* connection holds what was recorded for this request only, and the response
\* gets the headers of the one request that produced it and a string handed
\* to send during it, nothing of an earlier request through the handler.
C15_FreshCapturePerRequest ==
    /\ hpc \in {"headers", "sent"} =>
          /\ conn # <<>>
          /\ conn[1].request_headers = puts
          /\ sends = <<>> => conn[1].request_header = <<>>
          /\ sends # <<>> => conn[1].request_header = sends[Len(sends)]
    /\ Returned =>
          /\ Len(hresponse[1].request_headers) = Len(puts)
          /\ InSeq(hresponse[1].request_header, sends)

C15_Witness ==
    /\ requests = 2
    /\ hpc = "headers"
    /\ puts = <<>>
    /\ conn = <<HTTPConnection2_init>>
    /\ hresponse # <<>>
    /\ hresponse[1].request_headers # <<>>
    /\ hresponse[1].request_header # <<>>


\* A call in which the open fails leaves the instance as it was, with no
\* response; a get_response() that returns while there is no response has
\* issued the request.
FailedOpenStep ==
    /\ (calls' # calls /\ last'.exc = "URLError")
          => /\ response = <<>>
             /\ response' = <<>>
             /\ response_header' = <<>>
             /\ tried_encodings' = tried_encodings
             /\ opens' = opens
    /\ (calls' # calls /\ response = <<>> /\ last'.self = "get_response"
            /\ last'.exc = "")
          => /\ last'.opened
             /\ response' # <<>>
             /\ last'.ret_id = response'[1].id

\* C16: when the network open fails inside get_response(), the transport
\* error reaches the caller and the instance is unchanged (response and
\* response_header stay None, tried_encodings untouched), so a later
\* get_response() issues the request again.
C16_FailedOpenLeavesInstance == [][FailedOpenStep]_vars

C16_Witness ==
    /\ last.self = "get_response"
    /\ last.exc = "URLError"
    /\ calls = 2
    /\ response = <<>>
    /\ response_header = <<>>
    /\ opens = 0


IsPrefix(s, t) == Len(s) <= Len(t) /\ SubSeq(t, 1, Len(s)) = s

\* The strict attempts of the last call that step 2 made.
MetaAttempts ==
    IF Declared # NoneValue
    THEN SubSeq(last.attempts, 2, Len(last.attempts))
    ELSE last.attempts

\* A step keeps every entry of tried_encodings in its place, and a
\* get_unicode() call starts with the entries the calls before it left and
\* attempts no meta-tag candidate that is among them.
AppendOnlyStep ==
    /\ IsPrefix(tried_encodings, tried_encodings')
    /\ (calls' # calls /\ last'.self = "get_unicode")
          => /\ last'.before = tried_encodings
             /\ \A i \in 1..Len(MetaAttempts') :
                   ~Contains(tried_encodings, MetaAttempts'[i])

\* C17: tried_encodings is append-only over the life of the instance: no
\* call removes or resets entries, and the failures an earlier get_unicode()
\* recorded are present at the start of every later get_unicode(), which
\* skips the candidates among them.
C17_TriedEncodingsAppendOnly == [][AppendOnlyStep]_vars

C17_Witness ==
    /\ calls = 2
    /\ last.self = "get_unicode"
    /\ ~last.fresh
    /\ last.exc = ""
    /\ last.before # <<>>
    /\ tried_encodings = last.before


HeaderReaders == {"get_content_type", "get_encoding_from_content_type"}

\* C18: get_content_type() and get_encoding_from_content_type() issue no
\* network request: response_header is set exactly when a get_response() has
\* succeeded, and called before that they end in an error and leave response
\* and response_header None.
C18_HeaderReadersDoNotFetch ==
    /\ (response_header = <<>>) <=> (response = <<>>)
    /\ (response = <<>>) <=> (opens = 0)
    /\ last.self \in HeaderReaders =>
          /\ ~last.opened
          /\ response = <<>> => last.exc = "AttributeError"

C18_Witness ==
    /\ calls = 1
    /\ last.self = "get_encoding_from_content_type"
    /\ last.exc = "AttributeError"
    /\ response = <<>>
    /\ response_header = <<>>
    /\ opens = 0

====
